---- MODULE Spec2Model ----
(***************************************************************************)
(* Model of pystiche.enc.MultiLayerEncoder / SingleLayerEncoder            *)
(* (src/pystiche/enc/multi_layer_encoder.py).                              *)
(*                                                                         *)
(* Stages are opaque deterministic tensor -> tensor maps; they are         *)
(* interpreted freely: an activation is the pair (content of the input,    *)
(* sequence of stage names applied to it), so two activations are equal    *)
(* only if they were produced from equal content by the same stages.       *)
(* A propagated guide is interpreted the same way.                         *)
(*                                                                         *)
(* The second part models InfiniteCycleBatchSampler and                    *)
(* FiniteCycleBatchSampler (src/pystiche/image/data/sampler.py): a sampler *)
(* object and the generators started from it, resumed one batch at a time. *)
(***************************************************************************)
EXTENDS Integers, Sequences, FiniteSets, TLC

\* ------------------------------------------------------------------ bounds
NumTensors == 2
MaxLayers == 2
\* samplers: len(data_source), batch_size, num_batches, and how many batches
\* an iteration is followed for
MaxSize == 3
MaxBatchSize == 2
MaxNumBatches == 2
MaxBatches == 4

\* ------------------------------------------------------- construction data
\* modules handed to MultiLayerEncoder.__init__, in order; two stages give
\* every shape of request: a hit below a miss, a miss below a hit, a
\* deleted tail
OrigStages == <<"a", "b">>

Range(s) == {s[i] : i \in 1..Len(s)}

\* the layer names a caller passes: the constructed stages, which stop
\* being stages once trim has deleted them, and one that never was a stage
NameOrder == OrigStages \o <<"z">>
Names == Range(NameOrder)
NoLayer == ""

\* input tensors: an object identity and a content; contents repeat from
\* the third tensor on, so tensors 1 and 3 are distinct objects with equal
\* contents
Tensors == {[id |-> i, data |-> i % 2] : i \in 1..NumTensors}
NoTensor == [id |-> 0, data |-> 0]

\* pystiche.TensorKey(input): identity token + content fingerprint
TensorKey(t) == <<t.id, t.data>>

\* the guide a propagation starts from: a tensor that no stage has seen
Guide(t) == [data |-> t.data, guided |-> <<>>]

\* propagate_guide(module, guide) of pystiche.enc.guides: the guide pushed
\* through one stage
GuidePropagator(name, g) == [data |-> g.data, guided |-> Append(g.guided, name)]

\* the tensor value a stage sees when it is fed the input itself
Value(t) == [data |-> t.data, path |-> <<>>]

\* module(input): one stage applied to a tensor value
Module(name, v) == [data |-> v.data, path |-> Append(v.path, name)]

\* all sequences over S of length 0..n
SeqsUpTo(S, n) == UNION {[1..k -> S] : k \in 0..n}

\* the iteration orders of a Python set, and one of them
Orders(S) == {s \in [1..Cardinality(S) -> S] : Range(s) = S}
SeqOf(S) == SelectSeq(NameOrder, LAMBDA n : n \in S)

\* ------------------------------------------------------------- the encoder
VARIABLES
    stages,             \* names of self._modules, in container order
    registered_layers,  \* self.registered_layers
    cache,              \* self._cache : (name, key) -> activation
    op,                 \* the call that produced this state
    ret,                \* its outcome: status and returned tuple
    ran,                \* the stages it invoked on a tensor, in order
    propagated,         \* the stages it propagated a guide through, in order
    before,             \* the encoder as that call found it
    encoded             \* the input and layers of the last encode, while no
                        \* later encode or clear_cache has happened

encoder ==
    <<stages, registered_layers, cache, op, ret, ran, propagated, before, encoded>>

\* ------------------------------------------------------------- the sampler
VARIABLES
    generator_stop,     \* PEP 479 in force: StopIteration inside a generator
                        \* surfaces as RuntimeError
    sampler,            \* the constructed sampler object, if any
    iterators,          \* the iterations started from it by iter(sampler)
    length              \* what the last len(sampler) returned

sampling == <<generator_stop, sampler, iterators, length>>

vars == <<encoder, sampling>>

\* the encoder's fields at this moment
Snapshot ==
    [stages |-> stages, registered_layers |-> registered_layers, cache |-> cache]

\* children_names(): the names in container order
children_names(st) == st

\* __contains__
Contains(st, name) == name \in Range(children_names(st))

\* list(self.children_names()).index(layer), 0-based
Index(st, layer) == (CHOOSE i \in 1..Len(st) : st[i] = layer) - 1

\* sorted(set(layers), key=list(self.children_names()).index)
Sorted(st, S) == SelectSeq(children_names(st), LAMBDA n : n \in S)

\* faulty variant of the selection: the first instead of the last of the sorted names
FirstOfSorted(s) == s[1]

\* [-1] of the sorted list
LastOfSorted(s) == s[Len(s)]

\* extract_deepest_layer(layers): verify every name, then the deepest
extract_deepest_layer(st, layers) ==
    IF \E i \in 1..Len(layers) : ~Contains(st, layers[i])
    THEN [err |-> "ValueError", layer |-> NoLayer]
    ELSE IF Len(layers) = 0
    THEN [err |-> "IndexError", layer |-> NoLayer]
    ELSE [err |-> "none", layer |-> LastOfSorted(Sorted(st, Range(layers)))]

\* faulty variant of the slice: include_last is ignored
named_children_to_excl(st, layer, include_last) ==
    SubSeq(st, 1, Index(st, layer))

\* faulty variant of the slice: it does not stop at the layer
named_children_to_end(st, layer, include_last) == st

\* named_children_to(layer, include_last); the caller has verified layer
named_children_to(st, layer, include_last) ==
    SubSeq(st, 1, IF include_last THEN Index(st, layer) + 1 ELSE Index(st, layer))

\* faulty variant of the slice: include_first is ignored
named_children_from_incl(st, layer, include_first) ==
    SubSeq(st, Index(st, layer) + 1, Len(st))

\* named_children_from(layer, include_first)
named_children_from(st, layer, include_first) ==
    SubSeq(st, (IF include_first THEN Index(st, layer) ELSE Index(st, layer) + 1) + 1,
           Len(st))

\* faulty variant of the merge: the argument replaces the dict
UpdateReplacing(c, d) == d

\* dict.update
Update(c, d) ==
    [k \in DOMAIN c \cup DOMAIN d |-> IF k \in DOMAIN d THEN d[k] ELSE c[k]]

\* stored_layers = [name for name, key in storage.keys() if key == input_key]
stored_layers(storage, key) ==
    {k[1] : k \in {kk \in DOMAIN storage : kk[2] = key}}

\* faulty variant of the difference: the cache is not consulted
diff_layers_all(layers, storage, key) == Range(layers)

\* diff_layers = set(layers) - set(stored_layers)
diff_layers(layers, storage, key) == Range(layers) \ stored_layers(storage, key)

\* faulty variant of the loop body: every stage is fed the original input
InputAfterUnchained(todo, v, n) == IF n = 0 THEN v ELSE Module(todo[n], v)

\* the loop variable input after n iterations of the loop of forward
RECURSIVE InputAfter(_, _, _)
InputAfter(todo, v, n) ==
    IF n = 0 THEN v ELSE Module(todo[n], InputAfter(todo, v, n - 1))

\* faulty variant of the loop: only the last output is written to storage
StorageAfterLastOnly(storage, todo, key, v, n) ==
    IF n = 0 THEN storage
    ELSE Update(storage, [k \in {<<todo[n], key>>} |-> InputAfter(todo, v, n)])

\* storage after n iterations: storage[(name, input_key)] = module(input)
StorageAfter(storage, todo, key, v, n) ==
    Update(storage,
           [k \in {<<todo[i], key>> : i \in 1..n} |->
               InputAfter(todo, v, Index(todo, k[1]) + 1)])

\* lines 65-74 of forward: the stages the loop will invoke, or the error
\* of extract_deepest_layer; diff: diff_layers is not empty
Plan(c, st, x, layers) ==
    LET diff == diff_layers(layers, c, TensorKey(x))
    IN  IF diff = {}
        THEN [err |-> "none", todo |-> <<>>, diff |-> FALSE]
        ELSE LET deepest == extract_deepest_layer(st, SeqOf(diff))
             IN  IF deepest.err # "none"
                 THEN [err |-> deepest.err, todo |-> <<>>, diff |-> TRUE]
                 ELSE [err |-> "none", diff |-> TRUE,
                       todo |-> named_children_to(st, deepest.layer, TRUE)]

\* the loop of forward (lines 72-75) run on storage = copy(self._cache);
\* raiseAt = k > 0 makes the k-th invoked stage raise
RunStages(c, plan, x, raiseAt) ==
    IF plan.err # "none"
    THEN [status |-> plan.err, storage |-> c, ran |-> <<>>, diff |-> plan.diff]
    ELSE IF raiseAt \in 1..Len(plan.todo)
    THEN [status |-> "RuntimeError",
          storage |-> StorageAfter(c, plan.todo, TensorKey(x), Value(x), raiseAt - 1),
          ran |-> SubSeq(plan.todo, 1, raiseAt), diff |-> plan.diff]
    ELSE [status |-> "ok",
          storage |-> StorageAfter(c, plan.todo, TensorKey(x), Value(x),
                                   Len(plan.todo)),
          ran |-> plan.todo, diff |-> plan.diff]

\* faulty variant of the store: the flag is ignored
CacheAfterIgnoringStore(c, run, store) ==
    IF run.status = "ok" /\ run.diff THEN Update(c, run.storage) ELSE c

\* faulty variant of the store: storage aliases the cache, every write lands in it
CacheAfterAliased(c, run, store) == Update(c, run.storage)

\* self._cache after forward: storage is a copy, merged only at line 78
CacheAfter(c, run, store) ==
    IF run.status = "ok" /\ run.diff /\ store THEN Update(c, run.storage) ELSE c

\* tuple([storage[(name, input_key)] for name in layers])
Result(run, layers, key) ==
    IF run.status # "ok"
    THEN [status |-> run.status, out |-> <<>>]
    ELSE IF \E i \in 1..Len(layers) : <<layers[i], key>> \notin DOMAIN run.storage
    THEN [status |-> "KeyError", out |-> <<>>]
    ELSE [status |-> "ok",
          out |-> [i \in 1..Len(layers) |-> run.storage[<<layers[i], key>>]]]

\* how many stages a call of forward invokes if none raises
NumToRun(c, st, x, layers) == Len(Plan(c, st, x, layers).todo)

Call(name, x, layers, store) ==
    [name |-> name, x |-> x, layers |-> layers, store |-> store]

\* between two calls: nothing is pending for the caller
Idle == Call("idle", NoTensor, <<>>, FALSE)
NoResult == [status |-> "none", out |-> <<>>]

\* no successful encode stands: none happened, or an encode or a
\* clear_cache followed it
NoEncoded == [x |-> NoTensor, layers |-> {}]

\* what an encode that returned r leaves standing
Encoded(x, registered, r) ==
    IF r.status = "ok" /\ registered # {}
    THEN [x |-> x, layers |-> registered]
    ELSE NoEncoded

\* no sampler constructed, no iteration started, len never asked
NoSampler == [cls |-> "none", size |-> 0, batch_size |-> 0, num_batches |-> 0]
NoIterator == [status |-> "none", pos |-> 0, count |-> 0, batch |-> <<>>]
Iterations == {"first", "second"}
NoLength == <<>>

Init ==
    /\ generator_stop = TRUE
    /\ sampler = NoSampler
    /\ iterators = [i \in Iterations |-> NoIterator]
    /\ length = NoLength
    /\ stages = OrigStages
    /\ registered_layers = {}
    /\ cache = <<>>
    /\ op = Idle
    /\ ret = NoResult
    /\ ran = <<>>
    /\ propagated = <<>>
    /\ encoded = NoEncoded
    /\ before = [stages |-> OrigStages, registered_layers |-> {}, cache |-> <<>>]

\* MultiLayerEncoder.forward(input, layers, store)
Forward(x, layers, store, raiseAt) ==
    /\ op = Idle
    /\ raiseAt <= NumToRun(cache, stages, x, layers)
    /\ LET run == RunStages(cache, Plan(cache, stages, x, layers), x, raiseAt)
       IN  /\ cache' = CacheAfter(cache, run, store)
           /\ ret' = Result(run, layers, TensorKey(x))
           /\ ran' = run.ran
    /\ op' = Call("forward", x, layers, store)
    /\ before' = Snapshot
    /\ UNCHANGED encoded
    /\ propagated' = <<>>
    /\ UNCHANGED sampling
    /\ UNCHANGED <<stages, registered_layers>>

\* SingleLayerEncoder.forward(input_image) of an extracted encoder
SingleForward(layer, x, raiseAt) ==
    /\ op = Idle
    /\ layer \in registered_layers
    /\ raiseAt <= NumToRun(cache, stages, x, <<layer>>)
    /\ LET run == RunStages(cache, Plan(cache, stages, x, <<layer>>), x, raiseAt)
           res == Result(run, <<layer>>, TensorKey(x))
       IN  /\ cache' = CacheAfter(cache, run, FALSE)
           /\ ret' = [status |-> res.status,
                      out |-> IF res.status = "ok" THEN <<res.out[1]>> ELSE <<>>]
           /\ ran' = run.ran
    /\ op' = Call("single_forward", x, <<layer>>, FALSE)
    /\ before' = Snapshot
    /\ UNCHANGED encoded
    /\ propagated' = <<>>
    /\ UNCHANGED sampling
    /\ UNCHANGED <<stages, registered_layers>>

\* faulty variant of the check: every name passes
verify_layer_skipped(st, layer) == TRUE

\* _verify_layer(layer) does not raise
verify_layer(st, layer) == Contains(st, layer)

\* MultiLayerEncoder.extract_single_layer_encoder(layer)
ExtractSingleLayerEncoder(layer) ==
    /\ op = Idle
    /\ IF verify_layer(stages, layer)
       THEN /\ registered_layers' = registered_layers \cup {layer}
            /\ ret' = [status |-> "ok", out |-> <<>>]
       ELSE /\ UNCHANGED registered_layers
            /\ ret' = [status |-> "ValueError", out |-> <<>>]
    /\ op' = Call("extract_single_layer_encoder", NoTensor, <<layer>>, FALSE)
    /\ before' = Snapshot
    /\ UNCHANGED encoded
    /\ propagated' = <<>>
    /\ UNCHANGED sampling
    /\ ran' = <<>>
    /\ UNCHANGED <<stages, cache>>

\* faulty variant of the replacement: the new entries are merged into the old cache
EncodedCacheMerged(c, keys, encs) ==
    Update(c, [k \in Range(keys) |->
                  encs[CHOOSE i \in 1..Len(keys) : keys[i] = k]])

\* faulty variant of the replacement: only the first pair of the zip is kept
EncodedCacheFirstOnly(c, keys, encs) == [k \in {keys[1]} |-> encs[1]]

\* dict(zip(keys, encs))
EncodedCache(c, keys, encs) ==
    [k \in Range(keys) |-> encs[CHOOSE i \in 1..Len(keys) : keys[i] = k]]

\* MultiLayerEncoder.encode(input); order is the iteration order of the set
Encode(x, order, raiseAt) ==
    /\ op = Idle
    /\ IF registered_layers = {}
       THEN /\ raiseAt = 0
            /\ UNCHANGED cache
            /\ ret' = [status |-> "ok", out |-> <<>>]
            /\ ran' = <<>>
       ELSE /\ raiseAt <= NumToRun(cache, stages, x, order)
            /\ LET key  == TensorKey(x)
                   keys == [i \in 1..Len(order) |-> <<order[i], key>>]
                   run  == RunStages(cache, Plan(cache, stages, x, order), x, raiseAt)
                   encs == Result(run, order, key)
               IN  /\ cache' = IF encs.status = "ok"
                                THEN EncodedCache(CacheAfter(cache, run, TRUE),
                                                  keys, encs.out)
                                ELSE CacheAfter(cache, run, TRUE)
                   /\ ret' = [status |-> encs.status, out |-> <<>>]
                   /\ ran' = run.ran
    /\ op' = Call("encode", x, order, TRUE)
    /\ before' = Snapshot
    /\ encoded' = Encoded(x, registered_layers, ret')
    /\ propagated' = <<>>
    /\ UNCHANGED sampling
    /\ UNCHANGED <<stages, registered_layers>>

\* MultiLayerEncoder.clear_cache()
ClearCache ==
    /\ op = Idle
    /\ cache' = <<>>
    /\ op' = Call("clear_cache", NoTensor, <<>>, FALSE)
    /\ before' = Snapshot
    /\ encoded' = NoEncoded
    /\ propagated' = <<>>
    /\ UNCHANGED sampling
    /\ ret' = [status |-> "ok", out |-> <<>>]
    /\ ran' = <<>>
    /\ UNCHANGED <<stages, registered_layers>>

\* faulty variant of the deletion: the stages before the deepest layer go
TrimmedFromDeepest(st, deepest) == named_children_from(st, deepest, TRUE)

\* the stages left by the loop of trim: those before the slice it deletes
Trimmed(st, deepest) ==
    LET gone == Range(named_children_from(st, deepest, FALSE))
    IN  SelectSeq(st, LAMBDA n : n \notin gone)

\* MultiLayerEncoder.trim(layers); dflt: layers is None
Trim(layers, dflt) ==
    /\ op = Idle
    /\ IF dflt THEN layers = SeqOf(registered_layers) ELSE TRUE
    /\ LET deepest == extract_deepest_layer(stages, layers)
       IN  IF deepest.err = "none"
           THEN /\ stages' = Trimmed(stages, deepest.layer)
                /\ ret' = [status |-> "ok", out |-> <<>>]
           ELSE /\ UNCHANGED stages
                /\ ret' = [status |-> deepest.err, out |-> <<>>]
    /\ op' = Call(IF dflt THEN "trim_default" ELSE "trim", NoTensor, layers, FALSE)
    /\ before' = Snapshot
    /\ UNCHANGED encoded
    /\ propagated' = <<>>
    /\ UNCHANGED sampling
    /\ ran' = <<>>
    /\ UNCHANGED <<registered_layers, cache>>

\* faulty variant of the loop body: every stage is handed the original guide
GuideAfterUnchained(todo, g, n) == IF n = 0 THEN g ELSE GuidePropagator(todo[n], g)

\* the loop variable guide after n iterations of the loop of propagate_guide
RECURSIVE GuideAfter(_, _, _)
GuideAfter(todo, g, n) ==
    IF n = 0 THEN g ELSE GuidePropagator(todo[n], GuideAfter(todo, g, n - 1))

\* the dict guides after the loop ran over all of todo
Guides(todo, g) ==
    [name \in Range(todo) |-> GuideAfter(todo, g, Index(todo, name) + 1)]

\* tuple([guides[name] for name in layers])
GuideResult(guides, layers) ==
    IF \E i \in 1..Len(layers) : layers[i] \notin DOMAIN guides
    THEN [status |-> "KeyError", out |-> <<>>]
    ELSE [status |-> "ok", out |-> [i \in 1..Len(layers) |-> guides[layers[i]]]]

\* the stages the loop of propagate_guide visits, or the error raised before it
GuidePlan(st, layers) ==
    LET deepest == extract_deepest_layer(st, layers)
    IN  IF deepest.err # "none"
        THEN [err |-> deepest.err, todo |-> <<>>]
        ELSE [err |-> "none", todo |-> named_children_to(st, deepest.layer, TRUE)]

\* MultiLayerEncoder.propagate_guide(guide, layers); raiseAt = k > 0 makes
\* the propagation through the k-th visited stage raise
PropagateGuide(guide, layers, raiseAt) ==
    /\ op = Idle
    /\ LET plan == GuidePlan(stages, layers)
       IN  /\ raiseAt <= Len(plan.todo)
           /\ IF plan.err # "none"
              THEN /\ ret' = [status |-> plan.err, out |-> <<>>]
                   /\ propagated' = <<>>
              ELSE IF raiseAt > 0
              THEN /\ ret' = [status |-> "RuntimeError", out |-> <<>>]
                   /\ propagated' = SubSeq(plan.todo, 1, raiseAt)
              ELSE /\ ret' = GuideResult(Guides(plan.todo, Guide(guide)), layers)
                   /\ propagated' = plan.todo
    /\ op' = Call("propagate_guide", guide, layers, FALSE)
    /\ before' = Snapshot
    /\ UNCHANGED encoded
    /\ ran' = <<>>
    /\ UNCHANGED <<stages, registered_layers, cache>>
    /\ UNCHANGED sampling

\* SingleLayerEncoder.propagate_guide(guide) of an extracted encoder
SinglePropagateGuide(layer, guide, raiseAt) ==
    /\ op = Idle
    /\ layer \in registered_layers
    /\ LET plan == GuidePlan(stages, <<layer>>)
       IN  /\ raiseAt <= Len(plan.todo)
           /\ IF plan.err # "none"
              THEN /\ ret' = [status |-> plan.err, out |-> <<>>]
                   /\ propagated' = <<>>
              ELSE IF raiseAt > 0
              THEN /\ ret' = [status |-> "RuntimeError", out |-> <<>>]
                   /\ propagated' = SubSeq(plan.todo, 1, raiseAt)
              ELSE /\ LET res == GuideResult(Guides(plan.todo, Guide(guide)), <<layer>>)
                      IN  ret' = [status |-> res.status,
                                  out |-> IF res.status = "ok" THEN <<res.out[1]>>
                                          ELSE <<>>]
                   /\ propagated' = plan.todo
    /\ op' = Call("single_propagate_guide", guide, <<layer>>, FALSE)
    /\ before' = Snapshot
    /\ UNCHANGED encoded
    /\ ran' = <<>>
    /\ UNCHANGED <<stages, registered_layers, cache>>
    /\ UNCHANGED sampling

\* MultiLayerEncoder.extract_deepest_layer(layers) called on its own
ExtractDeepestLayer(layers) ==
    /\ op = Idle
    /\ LET deepest == extract_deepest_layer(stages, layers)
       IN  ret' = IF deepest.err = "none"
                  THEN [status |-> "ok", out |-> <<deepest.layer>>]
                  ELSE [status |-> deepest.err, out |-> <<>>]
    /\ op' = Call("extract_deepest_layer", NoTensor, layers, FALSE)
    /\ before' = Snapshot
    /\ UNCHANGED encoded
    /\ propagated' = <<>>
    /\ UNCHANGED sampling
    /\ ran' = <<>>
    /\ UNCHANGED <<stages, registered_layers, cache>>

\* the call returns (or its exception reaches the caller)
Return ==
    /\ op # Idle
    /\ op' = Idle
    /\ before' = Snapshot
    /\ UNCHANGED encoded
    /\ propagated' = <<>>
    /\ UNCHANGED sampling
    /\ ret' = NoResult
    /\ ran' = <<>>
    /\ UNCHANGED <<stages, registered_layers, cache>>

LayerSeqs == SeqsUpTo(Names, MaxLayers)

\* the calls a client can make, each with every argument it can be given
ForwardCall ==
    /\ op = Idle
    /\ \E x \in Tensors, layers \in LayerSeqs, store \in BOOLEAN :
          \E k \in 0..NumToRun(cache, stages, x, layers) : Forward(x, layers, store, k)

SingleForwardCall ==
    /\ op = Idle
    /\ \E layer \in registered_layers, x \in Tensors :
          \E k \in 0..NumToRun(cache, stages, x, <<layer>>) : SingleForward(layer, x, k)

ExtractSingleLayerEncoderCall ==
    /\ op = Idle
    /\ \E layer \in Names : ExtractSingleLayerEncoder(layer)

EncodeCall ==
    /\ op = Idle
    /\ \E x \in Tensors, order \in Orders(registered_layers) :
          \E k \in 0..NumToRun(cache, stages, x, order) : Encode(x, order, k)

TrimCall ==
    /\ op = Idle
    /\ \/ \E layers \in LayerSeqs : Trim(layers, FALSE)
       \/ Trim(SeqOf(registered_layers), TRUE)

ExtractDeepestLayerCall ==
    /\ op = Idle
    /\ \E layers \in LayerSeqs : ExtractDeepestLayer(layers)

PropagateGuideCall ==
    /\ op = Idle
    /\ \E guide \in Tensors, layers \in LayerSeqs :
          \E k \in 0..Len(GuidePlan(stages, layers).todo) :
             PropagateGuide(guide, layers, k)

SinglePropagateGuideCall ==
    /\ op = Idle
    /\ \E layer \in registered_layers, guide \in Tensors :
          \E k \in 0..Len(GuidePlan(stages, <<layer>>).todo) :
             SinglePropagateGuide(layer, guide, k)

Next ==
    \/ PropagateGuideCall
    \/ SinglePropagateGuideCall
    \/ ForwardCall
    \/ SingleForwardCall
    \/ ExtractSingleLayerEncoderCall
    \/ EncodeCall
    \/ ClearCache
    \/ TrimCall
    \/ ExtractDeepestLayerCall
    \/ Return

Spec == Init /\ [][Next]_vars

\* a client that calls trim only without the layers argument
TrimDefaultCall ==
    /\ op = Idle
    /\ Trim(SeqOf(registered_layers), TRUE)

DefaultTrimNext ==
    \/ PropagateGuideCall
    \/ SinglePropagateGuideCall
    \/ ForwardCall
    \/ SingleForwardCall
    \/ ExtractSingleLayerEncoderCall
    \/ EncodeCall
    \/ ClearCache
    \/ TrimDefaultCall
    \/ ExtractDeepestLayerCall
    \/ Return

DefaultTrimSpec == Init /\ [][DefaultTrimNext]_vars

\* ------------------------------------------------------ sampler operations
\* next() of itertools.cycle(range(size)) at position pos, size > 0: the
\* position it moves to (pos itself is what it yields)
CycleNext(size, pos) == (pos + 1) % size

\* tuple(nextn(iterator, n)): n draws from the cycle standing at pos
RECURSIVE nextn(_, _, _)
nextn(size, pos, n) ==
    IF n = 0 THEN <<>> ELSE <<pos>> \o nextn(size, CycleNext(size, pos), n - 1)

\* faulty variant of the cycle: it is created anew for every batch
PosAfterRestarting(size, pos, n) == 0

\* where the cycle stands after n draws; it lives across the while loop
RECURSIVE PosAfter(_, _, _)
PosAfter(size, pos, n) ==
    IF n = 0 THEN pos ELSE PosAfter(size, CycleNext(size, pos), n - 1)

\* the generator of InfiniteCycleBatchSampler.__iter__ resumed once.
\* Over an empty range the first next(iterator) in nextn raises
\* StopIteration: under PEP 479 it leaves nextn as RuntimeError, which ends
\* the generator; without it nextn just ends and the batch is empty.
InfiniteResume(s, it, pep479) ==
    IF s.size = 0 /\ s.batch_size > 0
    THEN IF pep479
         THEN [it EXCEPT !.status = "error"]
         ELSE [it EXCEPT !.batch = <<>>, !.count = @ + 1]
    ELSE [it EXCEPT !.batch = nextn(s.size, it.pos, s.batch_size),
                    !.pos = PosAfter(s.size, it.pos, s.batch_size),
                    !.count = @ + 1]

\* faulty variant of the loop bound: one batch too many
FiniteExhaustedLate(s, it) == it.count = s.num_batches + 1

\* for _ in range(self.num_batches) has run out
FiniteExhausted(s, it) == it.count >= s.num_batches

\* the generator of FiniteCycleBatchSampler.__iter__ resumed once
FiniteResume(s, it, pep479) ==
    IF FiniteExhausted(s, it)
    THEN [it EXCEPT !.status = "done"]
    ELSE InfiniteResume(s, it, pep479)

\* __len__
len(s) == IF s.cls = "finite" THEN s.num_batches ELSE -1

\* InfiniteCycleBatchSampler(data_source, batch_size) or
\* FiniteCycleBatchSampler(data_source, num_batches, batch_size), with
\* size = len(data_source); the constructors only store their arguments
Construct(cls, size, batch_size, num_batches) ==
    /\ sampler = NoSampler
    /\ sampler' = [cls |-> cls, size |-> size, batch_size |-> batch_size,
                   num_batches |-> IF cls = "finite" THEN num_batches ELSE 0]
    /\ UNCHANGED <<generator_stop, iterators, length>>
    /\ UNCHANGED encoder

\* iter(sampler): a new generator, bound to the name i by the client
Iter(i) ==
    /\ sampler # NoSampler
    /\ iterators' = [iterators EXCEPT ![i] = [NoIterator EXCEPT !.status = "live"]]
    /\ UNCHANGED <<generator_stop, sampler, length>>
    /\ UNCHANGED encoder

\* next(i) on a generator that has not ended
NextBatch(i) ==
    /\ iterators[i].status = "live"
    /\ iterators[i].count < MaxBatches
    /\ iterators' =
          [iterators EXCEPT ![i] =
              IF sampler.cls = "finite"
              THEN FiniteResume(sampler, iterators[i], generator_stop)
              ELSE InfiniteResume(sampler, iterators[i], generator_stop)]
    /\ UNCHANGED <<generator_stop, sampler, length>>
    /\ UNCHANGED encoder

\* sampler.__len__()
LenCall ==
    /\ sampler # NoSampler
    /\ length' = <<len(sampler)>>
    /\ UNCHANGED <<generator_stop, sampler, iterators>>
    /\ UNCHANGED encoder

ConstructCall ==
    \E cls \in {"infinite", "finite"}, size \in 0..MaxSize,
       batch_size \in 1..MaxBatchSize, num_batches \in 0..MaxNumBatches :
       /\ cls = "infinite" => num_batches = 0
       /\ Construct(cls, size, batch_size, num_batches)

IterCall == \E i \in Iterations : Iter(i)

NextBatchCall == \E i \in Iterations : NextBatch(i)

\* a client of the samplers; the interpreter either has PEP 479 or not
SamplerInit ==
    /\ generator_stop \in BOOLEAN
    /\ sampler = NoSampler
    /\ iterators = [i \in Iterations |-> NoIterator]
    /\ length = NoLength
    /\ stages = OrigStages
    /\ registered_layers = {}
    /\ cache = <<>>
    /\ op = Idle
    /\ ret = NoResult
    /\ ran = <<>>
    /\ propagated = <<>>
    /\ encoded = NoEncoded
    /\ before = [stages |-> OrigStages, registered_layers |-> {}, cache |-> <<>>]

SamplerNext ==
    \/ ConstructCall
    \/ IterCall
    \/ NextBatchCall
    \/ LenCall

SamplerSpec == SamplerInit /\ [][SamplerNext]_vars

\* -------------------------------------------------------------- properties
\* the stages of a sequence applied one after the other, first one first
RECURSIVE ApplyAll(_, _)
ApplyAll(names, v) ==
    IF names = <<>> THEN v ELSE ApplyAll(Tail(names), Module(Head(names), v))

Pos(st, layer) == CHOOSE i \in 1..Len(st) : st[i] = layer
Through(st, layer) == SubSeq(st, 1, Pos(st, layer))

\* the position in st of the deepest name of the non-empty set L of stages
MaxPos(st, L) ==
    CHOOSE i \in 1..Len(st) : st[i] \in L /\ \A j \in (i + 1)..Len(st) : st[j] \notin L

\* the content a key was derived from
KeyData(key) == key[2]
IsForward(o) == o.name = "forward"
Cached(c, layer, x) == <<layer, TensorKey(x)>> \in DOMAIN c
OtherKeyCached(c, x) == \E k \in DOMAIN c : k[2] # TensorKey(x)

\* C1: forward(x, layers) with every name a current stage returns, unless a
\* stage raises, one tensor per requested name, the i-th being the stages
\* from the first through layers[i] applied in container order to x.
C1_ForwardReturnsActivations ==
    (/\ IsForward(op)
     /\ \A i \in 1..Len(op.layers) : Contains(before.stages, op.layers[i])
     /\ ret.status # "RuntimeError")
    => /\ ret.status = "ok"
       /\ Len(ret.out) = Len(op.layers)
       /\ \A i \in 1..Len(op.layers) :
             ret.out[i] = ApplyAll(Through(before.stages, op.layers[i]), Value(op.x))

\* a forward that answered one layer from the cache and computed another,
\* while that other layer was cached for a different input
C1_Witness ==
    /\ IsForward(op) /\ ret.status = "ok"
    /\ Len(op.layers) = 2
    /\ Cached(before.cache, op.layers[1], op.x)
    /\ ~Cached(before.cache, op.layers[2], op.x)
    /\ \E k \in DOMAIN before.cache : k[1] = op.layers[2] /\ k[2] # TensorKey(op.x)

\* C2 as stated: a requested layer that is cached for key(x) is never run
\* by the call, whatever else is requested.
C2_CachedNeverRun ==
    IsForward(op)
    => \A i \in 1..Len(op.layers) :
          Cached(before.cache, op.layers[i], op.x) => op.layers[i] \notin Range(ran)

\* C2 amended: a requested layer c that is cached for key(x) is run only
\* when some requested layer deeper than c is not cached for key(x); when
\* every requested layer is cached no stage is run.
C2_CachedRunOnlyBelowDeeperMiss ==
    IsForward(op)
    => /\ (\A i \in 1..Len(op.layers) : Cached(before.cache, op.layers[i], op.x))
             => ran = <<>>
       /\ \A i \in 1..Len(op.layers) :
             (/\ Cached(before.cache, op.layers[i], op.x)
              /\ op.layers[i] \in Range(ran))
             => \E j \in 1..Len(op.layers) :
                   /\ ~Cached(before.cache, op.layers[j], op.x)
                   /\ Contains(before.stages, op.layers[j])
                   /\ Pos(before.stages, op.layers[i]) < Pos(before.stages, op.layers[j])

\* a forward that ran stages for a missing layer and left a requested,
\* cached layer alone
C2_Witness ==
    /\ IsForward(op) /\ ret.status = "ok" /\ ran # <<>>
    /\ \E i \in 1..Len(op.layers) :
          Cached(before.cache, op.layers[i], op.x) /\ op.layers[i] \notin Range(ran)

\* C3: forward fails with the unknown-layer error whenever a requested name
\* is not a current stage, whatever the cache holds.
C3_UnknownLayerAlwaysFails ==
    (/\ IsForward(op)
     /\ \E i \in 1..Len(op.layers) : ~Contains(before.stages, op.layers[i]))
    => ret.status = "ValueError"

\* C4: encode(x) leaves the cache alone when no layer is registered;
\* otherwise, when it succeeds, the cache is exactly one entry per
\* registered layer for key(x), holding that layer's activation on x.
C4_EncodeReplacesCache ==
    op.name = "encode"
    => IF before.registered_layers = {}
       THEN cache = before.cache
       ELSE ret.status = "ok"
            => /\ DOMAIN cache =
                     {<<l, TensorKey(op.x)>> : l \in before.registered_layers}
               /\ \A l \in before.registered_layers :
                     cache[<<l, TensorKey(op.x)>>] =
                         ApplyAll(Through(OrigStages, l), Value(op.x))

\* an encode that ran an unregistered intermediate stage and dropped the
\* entries of another input
C4_Witness ==
    /\ op.name = "encode" /\ ret.status = "ok"
    /\ \E i \in 1..Len(ran) : ran[i] \notin registered_layers
    /\ OtherKeyCached(before.cache, op.x)
    /\ ~OtherKeyCached(cache, op.x)

\* C5: trim(layers), layers defaulting to the registered layers, deletes
\* exactly the stages after the deepest of layers when every name is a
\* current stage, and fails deleting nothing otherwise; the registered
\* layers are unchanged.
C5_TrimDeletesTail ==
    op.name \in {"trim", "trim_default"}
    => LET L == Range(op.layers)
       IN  /\ op.name = "trim_default" => L = before.registered_layers
           /\ registered_layers = before.registered_layers
           /\ IF L # {} /\ L \subseteq Range(before.stages)
              THEN /\ ret.status = "ok"
                   /\ stages = SubSeq(before.stages, 1, MaxPos(before.stages, L))
              ELSE /\ ret.status # "ok"
                   /\ stages = before.stages
           /\ ~(L \subseteq Range(before.stages)) => ret.status = "ValueError"

\* a default trim that deleted the stage after the deepest registered layer
C5_Witness ==
    /\ op.name = "trim_default" /\ ret.status = "ok"
    /\ Len(stages) < Len(before.stages)
    /\ stages[Len(stages)] \in registered_layers

\* C6: every cache entry (layer, key) holds the output of the constructed
\* stages from the first through layer applied to the input of that key.
C6_CacheCoherent ==
    \A k \in DOMAIN cache :
        cache[k] = ApplyAll(Through(OrigStages, k[1]),
                            [data |-> KeyData(k[2]), path |-> <<>>])

\* a cache holding entries of two inputs, one of them for the last stage
C6_Witness ==
    /\ \E k \in DOMAIN cache : k[1] = OrigStages[Len(OrigStages)]
    /\ \E k1, k2 \in DOMAIN cache : k1[2] # k2[2]

\* C7: forward with store=False, also through a SingleLayerEncoder, leaves
\* the cache as it was.
C7_NoStoreLeavesCache ==
    (op.name \in {"forward", "single_forward"} /\ ~op.store)
    => cache = before.cache

\* a forward without store that ran stages over a non-empty cache
C7_Witness ==
    /\ IsForward(op) /\ ~op.store /\ ret.status = "ok"
    /\ ran # <<>> /\ before.cache # <<>>

\* C8: a successful forward with store=True and a requested layer missing
\* for key(x) leaves an entry for every stage from the first through the
\* deepest missing requested layer, and keeps every entry of another key
\* or another layer with its value.
C8_StoreMergesWorkingSet ==
    (/\ IsForward(op) /\ op.store /\ ret.status = "ok"
     /\ \E i \in 1..Len(op.layers) : ~Cached(before.cache, op.layers[i], op.x))
    => LET key  == TensorKey(op.x)
           miss == {op.layers[i] : i \in
                       {j \in 1..Len(op.layers) :
                           ~Cached(before.cache, op.layers[j], op.x)}}
           path == Range(SubSeq(before.stages, 1, MaxPos(before.stages, miss)))
       IN  /\ \A s \in path : <<s, key>> \in DOMAIN cache
           /\ \A k \in DOMAIN before.cache :
                 (k[2] # key \/ k[1] \notin path)
                 => k \in DOMAIN cache /\ cache[k] = before.cache[k]

\* a storing forward that cached a stage nobody requested while another
\* input was cached
C8_Witness ==
    /\ IsForward(op) /\ op.store /\ ret.status = "ok"
    /\ \E i \in 1..Len(ran) :
          /\ ran[i] \notin Range(op.layers)
          /\ ~Cached(before.cache, ran[i], op.x)
          /\ Cached(cache, ran[i], op.x)
    /\ OtherKeyCached(before.cache, op.x)

\* C9: a forward or encode that fails, by an unknown layer or by a stage
\* raising, changes neither the cache nor the container nor the registered
\* layers; an unknown-layer failure runs no stage.
C9_FailureChangesNothing ==
    (op.name \in {"forward", "single_forward", "encode"} /\ ret.status # "ok")
    => /\ Snapshot = before
       /\ ret.status = "ValueError" => ran = <<>>

\* a storing forward whose second stage raised
C9_Witness ==
    /\ IsForward(op) /\ op.store /\ ret.status = "RuntimeError" /\ Len(ran) = 2

\* C10: extract_deepest_layer(names) returns, for a non-empty collection of
\* current stages, the name among them that is last in container order, and
\* fails with the unknown-layer error if a name is not a current stage.
C10_DeepestLayer ==
    op.name = "extract_deepest_layer"
    => LET L == Range(op.layers)
       IN  IF L \subseteq Range(before.stages)
           THEN L # {} => /\ ret.status = "ok"
                          /\ ret.out = <<before.stages[MaxPos(before.stages, L)]>>
           ELSE ret.status = "ValueError"

\* the deepest name given first, followed by a shallower one
C10_Witness ==
    /\ op.name = "extract_deepest_layer" /\ ret.status = "ok"
    /\ Len(op.layers) = 2
    /\ ret.out = <<op.layers[1]>>
    /\ op.layers[2] # op.layers[1]
\* the guide propagated through the stages of a sequence, first one first
RECURSIVE PropagateAll(_, _)
PropagateAll(names, g) ==
    IF names = <<>> THEN g
    ELSE PropagateAll(Tail(names), GuidePropagator(Head(names), g))

IsPropagateGuide(o) == o.name = "propagate_guide"
AllCurrent(st, layers) ==
    layers # <<>> /\ \A i \in 1..Len(layers) : Contains(st, layers[i])

\* C11: propagate_guide(guide, layers) with layers current stages runs no
\* stage on an input tensor and leaves cache, container and registered
\* layers as it found them; unless a propagation raises, it propagates the
\* guide through exactly the stages from the first through the deepest of
\* layers, in order, and returns for layers[i] the guide propagated through
\* the stages from the first through layers[i]; if a propagation raises, the
\* error reaches the caller, nothing is returned, and the stages propagated
\* are a prefix of those stages ending with the one that raised.
C11_PropagateGuideChains ==
    (IsPropagateGuide(op) /\ AllCurrent(before.stages, op.layers))
    => LET deepest == MaxPos(before.stages, Range(op.layers))
       IN  /\ ran = <<>>
           /\ Snapshot = before
           /\ ret.status \in {"ok", "RuntimeError"}
           /\ ret.status = "ok"
              => /\ propagated = SubSeq(before.stages, 1, deepest)
                 /\ Len(ret.out) = Len(op.layers)
                 /\ \A i \in 1..Len(op.layers) :
                       ret.out[i] = PropagateAll(Through(before.stages, op.layers[i]),
                                                 Guide(op.x))
           /\ ret.status = "RuntimeError"
              => /\ ret.out = <<>>
                 /\ Len(propagated) \in 1..deepest
                 /\ propagated = SubSeq(before.stages, 1, Len(propagated))

\* a propagation that returned the guides of two layers, the deeper one
\* requested first, on an encoder whose cache holds activations
C11_Witness ==
    /\ IsPropagateGuide(op) /\ ret.status = "ok"
    /\ op.layers = <<"b", "a">>
    /\ cache # <<>>

\* the requested layers without an entry for the key of x
Missing(c, layers, x) == {n \in Range(layers) : ~Cached(c, n, x)}

\* C15: the stages a successful forward(x, layers) runs are determined by
\* the cache it finds: none if every requested layer has an entry for
\* key(x), otherwise the container's stages from the first through the
\* deepest requested layer without an entry, each once and in container
\* order, and none deeper, even if a deeper requested layer is cached.
C15_RunDeterminedByCache ==
    (IsForward(op) /\ ret.status = "ok")
    => LET miss == Missing(before.cache, op.layers, op.x)
       IN  IF miss = {}
           THEN ran = <<>>
           ELSE /\ miss \subseteq Range(before.stages)
                /\ ran = SubSeq(before.stages, 1, MaxPos(before.stages, miss))

\* a forward that requested a and b, found only the deeper b cached, and
\* ran a alone
C15_Witness ==
    /\ IsForward(op) /\ ret.status = "ok"
    /\ Range(op.layers) = {"a", "b"}
    /\ Cached(before.cache, "b", op.x) /\ ~Cached(before.cache, "a", op.x)
    /\ ran = <<"a">>

IsPrefix(p, s) == Len(p) <= Len(s) /\ p = SubSeq(s, 1, Len(p))
IsTrim(o) == o.name \in {"trim", "trim_default"}

\* C16: the stage container is always a prefix of the constructed sequence
\* of stages, so no name repeats and nothing is added or reordered; a call
\* other than trim leaves it as it found it, a trim leaves a prefix of what
\* it found, and a failed trim leaves all of it.
C16_ContainerIsPrefix ==
    /\ IsPrefix(stages, OrigStages)
    /\ \A i, j \in 1..Len(stages) : stages[i] = stages[j] => i = j
    /\ ~IsTrim(op) => stages = before.stages
    /\ IsTrim(op) => /\ IsPrefix(stages, before.stages)
                     /\ ret.status # "ok" => stages = before.stages

\* a trim with explicit layers cut the container down to its first stage
\* while the cache held activations
C16_Witness ==
    /\ op.name = "trim" /\ ret.status = "ok"
    /\ before.stages = OrigStages /\ stages = <<"a">>
    /\ cache # <<>>

\* a forward of the single layer l, by its SingleLayerEncoder or by the
\* owning encoder
IsForwardOfOne(o) ==
    o.name \in {"single_forward", "forward"} /\ Len(o.layers) = 1

\* C17: while the last successful encode(x) stands (no encode and no
\* clear_cache since), every layer registered at that encode has its entry
\* for key(x) in the cache, and a forward(x) of its SingleLayerEncoder, like
\* the owner's forward(x, (layer,)), runs no stage, returns the activation
\* of the layer on x and leaves the cache as it found it, whatever forward,
\* trim or propagate_guide calls came in between.
C17_EncodedAnsweredFromCache ==
    encoded # NoEncoded
    => /\ \A l \in encoded.layers : Cached(cache, l, encoded.x)
       /\ (/\ IsForwardOfOne(op)
           /\ op.x = encoded.x
           /\ op.layers[1] \in encoded.layers)
          => /\ ran = <<>>
             /\ ret.status = "ok"
             /\ ret.out = <<ApplyAll(Through(OrigStages, op.layers[1]), Value(op.x))>>
             /\ cache = before.cache

\* the SingleLayerEncoder of an encoded layer answered after a trim had
\* deleted its stage and a forward had stored entries of another input
C17_Witness ==
    /\ op.name = "single_forward" /\ ret.status = "ok"
    /\ op.x = encoded.x /\ op.layers[1] \in encoded.layers
    /\ op.layers[1] \notin Range(stages)
    /\ OtherKeyCached(cache, op.x)

LeavesCacheAlone(o) ==
    o.name \in {"trim", "trim_default", "extract_single_layer_encoder",
                "propagate_guide", "single_propagate_guide"}

\* C18: only encode and clear_cache remove cache entries: after any other
\* call every key the call found is still in the cache; trim,
\* extract_single_layer_encoder and propagate_guide leave the cache exactly
\* as they found it, entries of deleted stages included; clear_cache leaves
\* it empty whatever it held.
C18_OnlyEncodeAndClearRemove ==
    /\ op.name \notin {"encode", "clear_cache"}
       => DOMAIN before.cache \subseteq DOMAIN cache
    /\ LeavesCacheAlone(op) => cache = before.cache
    /\ op.name = "clear_cache" => cache = <<>>

\* a trim deleted a stage whose activations stay in the cache
C18_Witness ==
    /\ IsTrim(op) /\ ret.status = "ok"
    /\ Len(stages) < Len(before.stages)
    /\ \E k \in DOMAIN cache : k[1] \notin Range(stages)

IsExtract(o) == o.name = "extract_single_layer_encoder"

\* C20: the registered layers only grow, and only by the layer of a
\* successful extract_single_layer_encoder, which succeeds only for a
\* current stage and changes nothing when it fails; and when trim is only
\* called without explicit layers, every registered layer is a current
\* stage in every state, so neither encode nor a SingleLayerEncoder ever
\* fails with the unknown-layer error.
C20_RegisteredLayersStayStages ==
    /\ before.registered_layers \subseteq registered_layers
    /\ registered_layers # before.registered_layers
       => /\ IsExtract(op) /\ ret.status = "ok"
          /\ registered_layers = before.registered_layers \cup {op.layers[1]}
    /\ IsExtract(op)
       => IF Contains(before.stages, op.layers[1])
          THEN ret.status = "ok" /\ op.layers[1] \in registered_layers
          ELSE ret.status = "ValueError"
               /\ registered_layers = before.registered_layers
    /\ registered_layers \subseteq Range(stages)
    /\ op.name \in {"encode", "single_forward", "single_propagate_guide"}
       => ret.status # "ValueError"

\* an encode ran stages and succeeded after a trim without layers had
\* deleted the stage behind the only registered layer
C20_Witness ==
    /\ op.name = "encode" /\ ret.status = "ok"
    /\ stages = <<"a">> /\ registered_layers = {"a"}
    /\ ran # <<>>

\* ------------------------------------------------------ sampler properties
\* the n-th index (0-based) of the cyclic sequence 0, 1, ..., size-1, 0, ...;
\* over an empty range there is none
CycleIndex(size, n) == IF size > 0 THEN n % size ELSE -1

\* the k-th batch (0-based) of b consecutive indices of the cyclic sequence
CycleBatch(size, b, k) == [j \in 1..b |-> CycleIndex(size, k * b + j - 1)]

\* the batch an iteration produced last is the one its count calls for
LastBatchCyclic(s, it) ==
    it.count > 0 => it.batch = CycleBatch(s.size, s.batch_size, it.count - 1)

\* C12: an iteration of an InfiniteCycleBatchSampler over size > 0 indices
\* with batch_size b >= 1 never ends and never fails, and the k-th batch it
\* produces (0-based) has exactly b elements, the j-th (0-based) being
\* (k*b + j) mod size.
C12_InfiniteCycleContinues ==
    (sampler.cls = "infinite" /\ sampler.size > 0 /\ sampler.batch_size >= 1)
    => \A i \in Iterations :
          LET it == iterators[i]
              b  == sampler.batch_size
          IN  /\ it.status \in {"none", "live"}
              /\ it.count > 0
                 => /\ Len(it.batch) = b
                    /\ \A j \in 0..(b - 1) :
                          it.batch[j + 1] = ((it.count - 1) * b + j) % sampler.size

\* the fourth batch of the sampler over 3 indices with batches of 2: (0, 1)
\* again, after (0, 1), (2, 0), (1, 2)
C12_Witness ==
    /\ sampler.cls = "infinite" /\ sampler.size = 3 /\ sampler.batch_size = 2
    /\ \E i \in Iterations : iterators[i].count = 4 /\ iterators[i].batch = <<0, 1>>

\* C13 as stated: every iteration of a FiniteCycleBatchSampler produces
\* num_batches batches, the k-th being the k-th batch of the cyclic sequence
\* over its size, never fails, ends after exactly num_batches batches, and
\* len reports num_batches.
C13_FiniteYieldsNumBatches ==
    sampler.cls = "finite"
    => /\ \A i \in Iterations :
             LET it == iterators[i]
             IN  /\ it.status # "error"
                 /\ it.count <= sampler.num_batches
                 /\ it.status = "done" => it.count = sampler.num_batches
                 /\ LastBatchCyclic(sampler, it)
       /\ length # NoLength => length = <<sampler.num_batches>>

\* the same for the samplers over at least one index
C13_FiniteYieldsNumBatchesOverIndices ==
    sampler.size > 0 => C13_FiniteYieldsNumBatches

\* the sampler over 3 indices with 2 batches of 2 has produced (0, 1) and
\* (2, 0) and has ended, and len was asked
C13_Witness ==
    /\ sampler = [cls |-> "finite", size |-> 3, batch_size |-> 2, num_batches |-> 2]
    /\ \E i \in Iterations :
          /\ iterators[i].status = "done"
          /\ iterators[i].batch = <<2, 0>>
    /\ length = <<2>>

\* C14 as stated: no sampler over an empty index range exists, and no
\* iteration is ever started on one.
C14_NoSamplerOverEmptyRange ==
    /\ sampler # NoSampler => sampler.size > 0
    /\ \A i \in Iterations : iterators[i].status # "none" => sampler.size > 0

\* batch production was started on a sampler constructed over no index,
\* and failed
C14_Witness ==
    /\ sampler # NoSampler /\ sampler.size = 0
    /\ \E i \in Iterations : iterators[i].status = "error"

\* an iteration stands where its own number of batches puts it: its cycle
\* position, its last batch and, for the finite sampler, its end
OnItsOwnCourse(s, it) ==
    /\ it.status # "error"
    /\ it.pos = IF it.count = 0 THEN 0
                ELSE CycleIndex(s.size, it.count * s.batch_size)
    /\ LastBatchCyclic(s, it)
    /\ s.cls = "finite" => /\ it.count <= s.num_batches
                           /\ it.status = "done" => it.count = s.num_batches
    /\ s.cls = "infinite" => it.status # "done"

\* C19 as stated: when two iterations were started from one sampler and
\* advanced in any interleaving, each of them has produced the batches of
\* the cyclic sequence starting at index 0 that its own number of steps
\* calls for, whatever the other one did; a finite iteration ends after its
\* own num_batches batches.
C19_IterationsIndependent ==
    (\A i \in Iterations : iterators[i].status # "none")
    => \A i \in Iterations : OnItsOwnCourse(sampler, iterators[i])

\* the same for the samplers over at least one index
C19_IterationsIndependentOverIndices ==
    sampler.size > 0 => C19_IterationsIndependent

\* a step of one iteration, or starting it anew, leaves the other iteration
\* as it was, over every sampler
C19_AdvancingLeavesOther ==
    [][\A i, j \in Iterations :
          (i # j /\ iterators'[i] # iterators[i]) => iterators'[j] = iterators[j]]_vars

\* two iterations of the sampler over 3 indices with batches of 2, one
\* three batches ahead of the other
C19_Witness ==
    /\ sampler.size = 3 /\ sampler.batch_size = 2
    /\ iterators["first"].count = 4 /\ iterators["first"].batch = <<0, 1>>
    /\ iterators["second"].count = 1 /\ iterators["second"].batch = <<0, 1>>

====
